---- MODULE Spec2Model ----
(***************************************************************************)
(* Model of src/types/crypto/zklogin.rs: the AddressSeed codec (decimal    *)
(* string <-> 32-byte big-endian buffer, padded()/unpadded()) and the      *)
(* serde implementations of ZkLoginPublicIdentifier and                    *)
(* ZkLoginAuthenticator.                                                   *)
(*                                                                         *)
(* Strings are sequences of byte values (ASCII codes for the characters    *)
(* used here), byte buffers are sequences of numbers in 0..255.  A U256 is *)
(* bnum's BUintD8<32>: 32 u8 digits, least significant digit first.  The   *)
(* 256-bit arithmetic is done digit by digit on these sequences, so the    *)
(* width of the integer is the width the program has.                      *)
(*                                                                         *)
(* The code is a library of pure functions.  The state machine is a        *)
(* caller: Init hands it one input (a seed, a string, an identifier or a   *)
(* wire buffer) and every action is one call, recorded with its argument   *)
(* and its result.                                                         *)
(***************************************************************************)
EXTENDS Integers, Sequences, FiniteSets, TLC

\* ------------------------------------------------------------- constants

N_BYTES == 32          \* AddressSeed([u8; 32])
RADIX == 10            \* to_str_radix(10) / from_str_radix(s, 10)
U8_RANGE == 256        \* number of values of a u8

\* ASCII codes of the characters the strings of the model are made of
CH_ZERO == 48          \* b'0'
CH_NINE == 57          \* b'9'
CH_PLUS == 43          \* b'+'

\* ---------------------------------------------------------------- bounds

MaxTextLen == 80       \* longest input string handed to from_str
MaxZeroPad == 2        \* most leading '0' characters put before a number
MaxIssLen == 257       \* longest issuer string of an identifier, in bytes
MaxWireLen == 36       \* longest byte buffer handed to the compact decoder
MaxExtra == 2          \* most bytes appended to an encoding before decoding it

\* --------------------------------------------------------------- helpers

Byte == 0..(U8_RANGE - 1)

Repeat(x, n) == [i \in 1..n |-> x]

Reverse(s) == [i \in 1..Len(s) |-> s[Len(s) + 1 - i]]

Ok(v) == [ok |-> TRUE, val |-> v, err |-> "none"]

Err(e) == [ok |-> FALSE, val |-> <<>>, err |-> e]

\* F of the value of x, x evaluated once
With(x, F(_)) == CHOOSE r \in { F(y) : y \in {x} } : TRUE

\* ------------------------------------------------- U256 (bnum BUintD8<32>)

\* U256::from_digits: the array becomes the digits, digit 1 least significant
from_digits(a) == a

\* BUint::digits: the digit array
digits(u) == u

\* BUint::swap_bytes: reverses the order of the (one-byte) digits
swap_bytes(u) == Reverse(u)

\* BUint::from_be on a little-endian target: swap_bytes
from_be(u) == swap_bytes(u)

\* (mutant) to_be that leaves the digits in the target's order
to_be_unswapped(u) == u

\* BUint::to_be on a little-endian target: swap_bytes
to_be(u) == swap_bytes(u)

U256_ZERO == Repeat(0, N_BYTES)

is_zero(u) == \A i \in 1..Len(u) : u[i] = 0

\* u divided by the small number d, from the most significant digit down:
\* the quotient (as digits) and the remainder
RECURSIVE div_rem_digit(_, _, _, _, _)
div_rem_digit(u, d, i, rem, q) ==
    IF i = 0 THEN [quot |-> q, rem |-> rem]
    ELSE LET cur == rem * U8_RANGE + u[i]
         IN  div_rem_digit(u, d, i - 1, cur % d, [q EXCEPT ![i] = cur \div d])

\* u * m + a on the digits, from the least significant digit up: the digits
\* of the result and the carry out of the most significant digit
RECURSIVE mul_add_digit(_, _, _, _)
mul_add_digit(u, m, i, carry) ==
    IF i > Len(u) THEN [val |-> u, carry |-> carry]
    ELSE LET cur == u[i] * m + carry
         IN  mul_add_digit([u EXCEPT ![i] = cur % U8_RANGE], m, i + 1, cur \div U8_RANGE)

\* radix^k
RECURSIVE pow(_, _)
pow(radix, k) == IF k = 0 THEN 1 ELSE radix * pow(radix, k - 1)

\* The conversions go STEP_DIGITS digits of the radix at a time, as bnum does
\* with the largest power of the radix that fits its working digit; here
\* RADIX^6 * 256 is below 2^31.
STEP_DIGITS == 2 * 3

\* the number n < radix^k as exactly k characters, zeros in front
fixed_digits(n, radix, k) ==
    [i \in 1..k |-> CH_ZERO + ((n \div pow(radix, k - i)) % radix)]

\* how many digits the number n > 0 has in the radix
RECURSIVE digit_count(_, _)
digit_count(n, radix) == IF n < radix THEN 1 ELSE 1 + digit_count(n \div radix, radix)

\* (mutant) radix_digits that writes every group at its full width
RECURSIVE radix_digits_full_width(_, _, _)
radix_digits_full_width(u, radix, acc) ==
    LET dr == div_rem_digit(u, pow(radix, STEP_DIGITS), Len(u), 0, u)
    IN  IF is_zero(dr.quot)
        THEN fixed_digits(dr.rem, radix, STEP_DIGITS) \o acc
        ELSE radix_digits_full_width(dr.quot, radix,
                                     fixed_digits(dr.rem, radix, STEP_DIGITS) \o acc)

\* the digits of u # 0 in the radix, most significant first, before acc: the
\* most significant group has no zeros in front of it
RECURSIVE radix_digits(_, _, _)
radix_digits(u, radix, acc) ==
    LET dr == div_rem_digit(u, pow(radix, STEP_DIGITS), Len(u), 0, u)
    IN  IF is_zero(dr.quot)
        THEN fixed_digits(dr.rem, radix, digit_count(dr.rem, radix)) \o acc
        ELSE radix_digits(dr.quot, radix, fixed_digits(dr.rem, radix, STEP_DIGITS) \o acc)

\* BUint::to_str_radix: "0" for zero, else the digits with no leading zero
to_str_radix(u, radix) ==
    IF is_zero(u) THEN <<CH_ZERO>> ELSE radix_digits(u, radix, <<>>)

\* char::to_digit for a radix of at most 10: the value of c, or -1
to_digit(c, radix) ==
    IF c >= CH_ZERO /\ c <= CH_NINE /\ c - CH_ZERO < radix THEN c - CH_ZERO ELSE -1

\* the value of the digits s[i..j]
RECURSIVE group_value(_, _, _, _)
group_value(s, radix, i, j) ==
    IF i > j THEN 0
    ELSE group_value(s, radix, i, j - 1) * radix + to_digit(s[j], radix)

\* (mutant) parse_digits that drops the carry out of the last digit
RECURSIVE parse_digits_wrapping(_, _, _, _)
parse_digits_wrapping(s, radix, i, acc) ==
    IF i > Len(s) THEN Ok(acc)
    ELSE LET n == ((Len(s) - i) % STEP_DIGITS) + 1
             r == mul_add_digit(acc, pow(radix, n), 1, group_value(s, radix, i, i + n - 1))
         IN  parse_digits_wrapping(s, radix, i + n, r.val)

\* the digits of s from position i on, accumulated into acc a group at a time
RECURSIVE parse_digits(_, _, _, _)
parse_digits(s, radix, i, acc) ==
    IF i > Len(s) THEN Ok(acc)
    ELSE LET n == ((Len(s) - i) % STEP_DIGITS) + 1
             r == mul_add_digit(acc, pow(radix, n), 1, group_value(s, radix, i, i + n - 1))
         IN  IF r.carry # 0 THEN Err("PosOverflow")
             ELSE parse_digits(s, radix, i + n, r.val)

\* BUint::from_str_radix: Empty for "", an optional leading '+', then digits
\* only; PosOverflow when the value does not fit the 32 digits
from_str_radix(s, radix) ==
    IF Len(s) = 0 THEN Err("Empty")
    ELSE LET leading_plus == s[1] = CH_PLUS
             first == IF leading_plus THEN 2 ELSE 1
         IN  IF leading_plus /\ Len(s) = 1 THEN Err("InvalidDigit")
             ELSE IF \E i \in first..Len(s) : to_digit(s[i], radix) < 0
                  THEN Err("InvalidDigit")
                  ELSE parse_digits(s, radix, first, U256_ZERO)

\* ------------------------------------------------------------ AddressSeed

\* (mutant) the loop body run once: drops one zero byte only
strip_one_zero(buf) ==
    IF Len(buf) # 0 /\ buf[1] = 0 THEN Tail(buf) ELSE buf

\* the loop of unpadded(): drops bytes while the first one is zero
RECURSIVE strip_leading_zeros(_)
strip_leading_zeros(buf) ==
    IF Len(buf) # 0 /\ buf[1] = 0 THEN strip_leading_zeros(Tail(buf)) ELSE buf

\* (mutant) unpadded without the case of the value zero
unpadded_no_zero_case(self) == strip_leading_zeros(self)

\* AddressSeed::unpadded
unpadded(self) ==
    LET buf == strip_leading_zeros(self)
    IN  IF Len(buf) = 0 THEN SubSeq(self, N_BYTES, Len(self)) ELSE buf

\* AddressSeed::padded
padded(self) == self

\* impl Display for AddressSeed (to_string)
to_string(self) ==
    LET u256 == from_be(from_digits(self))
    IN  to_str_radix(u256, RADIX)

\* (mutant) from_str keeping the digits in the order U256 holds them
from_str_native_order(s) ==
    LET r == from_str_radix(s, RADIX)
    IN  IF r.ok THEN Ok(digits(r.val))
        ELSE Err("AddressSeedParseError")

\* impl FromStr for AddressSeed
from_str(s) ==
    LET r == from_str_radix(s, RADIX)
    IN  IF r.ok THEN Ok(digits(to_be(r.val)))
        ELSE Err("AddressSeedParseError")

\* ------------------------------------------------ ZkLoginPublicIdentifier

\* what a serializer is handed and a deserializer hands back: the record
\* Readable {iss, address_seed} of the human-readable formats (address_seed
\* as the string DisplayFromStr makes of it), or the bytes of the compact ones
ReadableWire(iss, address_seed) ==
    [human |-> TRUE, iss |-> iss, address_seed |-> address_seed, bytes |-> <<>>]

CompactWire(bytes) ==
    [human |-> FALSE, iss |-> <<>>, address_seed |-> <<>>, bytes |-> bytes]

NO_IDENT == [iss |-> <<>>, address_seed |-> <<>>]

\* the outcome of a decoding: Ok(value), Err(error), or a panic
Decoded(v) == [out |-> "Ok", val |-> v, err |-> "none"]

Failed(e) == [out |-> "Err", val |-> NO_IDENT, err |-> e]

Panicked(e) == [out |-> "Panic", val |-> NO_IDENT, err |-> e]

\* a continuation byte of UTF-8 at position i
is_cont(b, i) == i >= 1 /\ i <= Len(b) /\ b[i] >= 128 /\ b[i] <= 191

\* the number of bytes of the character a first byte announces, 0 for a byte
\* that starts none (a continuation byte, 0xC0, 0xC1, 0xF5..0xFF)
utf8_char_width(c) ==
    IF c < 128 THEN 1
    ELSE IF c >= 194 /\ c <= 223 THEN 2
    ELSE IF c >= 224 /\ c <= 239 THEN 3
    ELSE IF c >= 240 /\ c <= 244 THEN 4
    ELSE 0

\* the second byte of the character that starts at i is in the range its
\* first byte allows (no overlong form, no surrogate, nothing above U+10FFFF)
utf8_second_ok(b, i) ==
    LET c == b[i]
        lo == IF c = 224 THEN 160 ELSE IF c = 240 THEN 144 ELSE 128
        hi == IF c = 237 THEN 159 ELSE IF c = 244 THEN 143 ELSE 191
    IN  i + 1 <= Len(b) /\ b[i + 1] >= lo /\ b[i + 1] <= hi

\* std::str::from_utf8(b).is_ok(): every byte starts a character that is
\* complete, or continues the character started up to three bytes before it
utf8_valid(b) ==
    \A i \in 1..Len(b) :
        IF is_cont(b, i)
        THEN \E k \in 1..3 :
                /\ i - k >= 1
                /\ utf8_char_width(b[i - k]) > k
                /\ \A j \in 1..(k - 1) : is_cont(b, i - j)
        ELSE /\ utf8_char_width(b[i]) >= 1
             /\ utf8_char_width(b[i]) >= 2 => utf8_second_ok(b, i)
             /\ \A j \in 2..(utf8_char_width(b[i]) - 1) : is_cont(b, i + j)

\* slice.get(from..to) with from <= to, positions counted from 0: None
\* (here: ok = FALSE) when the range goes beyond the slice
slice_get(bytes, from, to) ==
    IF to > Len(bytes) THEN Err("None")
    ELSE Ok([i \in 1..(to - from) |-> bytes[from + i]])

\* impl Serialize for ZkLoginPublicIdentifier
ident_serialize(self, human_readable) ==
    IF human_readable
    THEN ReadableWire(self.iss, to_string(self.address_seed))
    ELSE LET iss_bytes == self.iss
             buf == <<Len(iss_bytes) % U8_RANGE>> \o iss_bytes \o self.address_seed
         IN  CompactWire(buf)

\* (mutant) the compact branch taking the first 32 bytes after the issuer as
\* the seed, whatever follows them
compact_deserialize_prefix(bytes) ==
    IF Len(bytes) = 0 THEN Panicked("index out of bounds")
    ELSE LET iss_len == bytes[1]
             iss_bytes == slice_get(bytes, 1, 1 + iss_len)
         IN  IF ~iss_bytes.ok THEN Failed("invalid zklogin public identifier")
             ELSE IF ~utf8_valid(iss_bytes.val) THEN Failed("Utf8Error")
             ELSE IF Len(bytes) < 1 + iss_len + N_BYTES THEN Failed("TryFromSliceError")
             ELSE Decoded([iss |-> iss_bytes.val,
                           address_seed |->
                               slice_get(bytes, 1 + iss_len, 1 + iss_len + N_BYTES).val])

\* impl Deserialize for ZkLoginPublicIdentifier, the compact branch: bytes[0]
\* panics on an empty buffer
compact_deserialize(bytes) ==
    IF Len(bytes) = 0 THEN Panicked("index out of bounds")
    ELSE LET iss_len == bytes[1]
             iss_bytes == slice_get(bytes, 1, 1 + iss_len)
             address_seed_bytes == slice_get(bytes, 1 + iss_len, Len(bytes))
         IN  IF ~iss_bytes.ok THEN Failed("invalid zklogin public identifier")
             ELSE IF ~utf8_valid(iss_bytes.val) THEN Failed("Utf8Error")
             ELSE IF ~address_seed_bytes.ok THEN Failed("invalid zklogin public identifier")
             ELSE IF Len(address_seed_bytes.val) # N_BYTES THEN Failed("TryFromSliceError")
             ELSE Decoded([iss |-> iss_bytes.val, address_seed |-> address_seed_bytes.val])

\* impl Deserialize for ZkLoginPublicIdentifier, the human-readable branch:
\* address_seed goes through from_str
readable_deserialize(iss, address_seed) ==
    LET r == from_str(address_seed)
    IN  IF r.ok THEN Decoded([iss |-> iss, address_seed |-> r.val])
        ELSE Failed("AddressSeedParseError")

\* impl Deserialize for ZkLoginPublicIdentifier
ident_deserialize(wire) ==
    IF wire.human THEN readable_deserialize(wire.iss, wire.address_seed)
    ELSE compact_deserialize(wire.bytes)

\* ---------------------------------------------------------------- BCS

\* a step of a BCS reader: the value read and the position of the next byte,
\* or the error
Rd(v, p) == [ok |-> TRUE, val |-> v, pos |-> p, err |-> "none"]

RdErr(e) == [ok |-> FALSE, val |-> <<>>, pos |-> 0, err |-> e]

ULEB_BASE == U8_RANGE \div 2

\* bcs: a length as ULEB128, seven bits a byte, least significant first
RECURSIVE bcs_uleb128(_)
bcs_uleb128(n) ==
    IF n < ULEB_BASE THEN <<n>>
    ELSE <<ULEB_BASE + (n % ULEB_BASE)>> \o bcs_uleb128(n \div ULEB_BASE)

\* bcs: serialize_bytes / serialize_str: the length, then the bytes
bcs_bytes(b) == bcs_uleb128(Len(b)) \o b

\* the encodings of the items of a sequence one after the other
RECURSIVE bcs_concat(_)
bcs_concat(items) ==
    IF Len(items) = 0 THEN <<>> ELSE Head(items) \o bcs_concat(Tail(items))

\* bcs: Vec<String>
bcs_vec_str(v) == bcs_uleb128(Len(v)) \o bcs_concat([i \in 1..Len(v) |-> bcs_bytes(v[i])])

\* bcs: Vec<Vec<String>>
bcs_vec_vec_str(v) ==
    bcs_uleb128(Len(v)) \o bcs_concat([i \in 1..Len(v) |-> bcs_vec_str(v[i])])

\* the ? operator on a reader's result: its error, or F of what it read
AndThen(r, F(_)) == With(r, LAMBDA x : IF ~x.ok THEN x ELSE F(x))

\* bcs Deserializer::parse_length: at most five bytes, the last one not zero
\* unless it is the only one, the value a u32 of at most 2^31 - 1
RECURSIVE parse_length(_, _, _, _)
parse_length(bytes, pos, k, acc) ==
    IF k > 4 THEN RdErr("IntegerOverflowDuringUleb128Decoding")
    ELSE IF pos > Len(bytes) THEN RdErr("Eof")
    ELSE LET byte == bytes[pos]
             digit == byte % ULEB_BASE
         IN  IF digit # byte
             THEN parse_length(bytes, pos + 1, k + 1, acc + digit * pow(ULEB_BASE, k))
             ELSE IF k > 0 /\ digit = 0 THEN RdErr("NonCanonicalUleb128Encoding")
             ELSE IF k = 4 /\ digit >= 16 THEN RdErr("IntegerOverflowDuringUleb128Decoding")
             ELSE IF k = 4 /\ digit >= 8 THEN RdErr("ExceededMaxLen")
             ELSE Rd(acc + digit * pow(ULEB_BASE, k), pos + 1)

\* bcs: n bytes from pos on
parse_fixed(bytes, pos, n) ==
    IF n > Len(bytes) - pos + 1 THEN RdErr("Eof")
    ELSE Rd([i \in 1..n |-> bytes[pos + i - 1]], pos + n)

\* bcs: deserialize_bytes
parse_bytes(bytes, pos) ==
    AndThen(parse_length(bytes, pos, 0, 0), LAMBDA n : parse_fixed(bytes, n.pos, n.val))

\* bcs: deserialize_str
parse_str(bytes, pos) ==
    AndThen(parse_bytes(bytes, pos),
            LAMBDA b : IF ~utf8_valid(b.val) THEN RdErr("Utf8") ELSE b)

\* n more strings from pos on, after those of acc
RECURSIVE parse_strs(_, _, _, _)
parse_strs(bytes, pos, n, acc) ==
    IF n = 0 THEN Rd(acc, pos)
    ELSE AndThen(parse_str(bytes, pos),
                 LAMBDA s : parse_strs(bytes, s.pos, n - 1, Append(acc, s.val)))

\* bcs: Vec<String> (CircomG1)
parse_vec_str(bytes, pos) ==
    AndThen(parse_length(bytes, pos, 0, 0),
            LAMBDA n : parse_strs(bytes, n.pos, n.val, <<>>))

\* n more Vec<String> from pos on, after those of acc
RECURSIVE parse_vec_strs(_, _, _, _)
parse_vec_strs(bytes, pos, n, acc) ==
    IF n = 0 THEN Rd(acc, pos)
    ELSE AndThen(parse_vec_str(bytes, pos),
                 LAMBDA v : parse_vec_strs(bytes, v.pos, n - 1, Append(acc, v.val)))

\* bcs: Vec<Vec<String>> (CircomG2)
parse_vec_vec_str(bytes, pos) ==
    AndThen(parse_length(bytes, pos, 0, 0),
            LAMBDA n : parse_vec_strs(bytes, n.pos, n.val, <<>>))

\* --------------------------------------- SignatureScheme, SimpleSignature

\* SignatureScheme as u8
FLAG_ED25519 == 0
FLAG_SECP256K1 == 1
FLAG_SECP256R1 == 2
FLAG_MULTISIG == 3
FLAG_BLS12381 == 4
FLAG_ZKLOGIN == 5

\* SignatureScheme::from_byte: an error for a byte that is no scheme
scheme_from_byte(b) ==
    IF b \in {FLAG_ED25519, FLAG_SECP256K1, FLAG_SECP256R1, FLAG_MULTISIG,
              FLAG_BLS12381, FLAG_ZKLOGIN}
    THEN Ok(b) ELSE Err("invalid signature scheme")

SIGNATURE_LENGTH == 64

\* the length of the public key of a single-key scheme
public_key_length(flag) == IF flag = FLAG_ED25519 THEN 32 ELSE 33

NO_SIGNATURE == [scheme |-> 0, signature |-> <<>>, public_key |-> <<>>]

\* SimpleSignature, compact: the bytes flag || signature || public key
simple_signature_bytes(self) == <<self.scheme>> \o self.signature \o self.public_key

\* SimpleSignature from its bytes: the flag of a single-key scheme, and the
\* lengths that flag implies
simple_signature_from_bytes(buf) ==
    IF Len(buf) = 0 THEN Err("missing signature scheme flag")
    ELSE IF buf[1] \notin {FLAG_ED25519, FLAG_SECP256K1, FLAG_SECP256R1}
         THEN Err("invalid signature scheme")
    ELSE IF Len(buf) # 1 + SIGNATURE_LENGTH + public_key_length(buf[1])
         THEN Err("invalid signature length")
    ELSE Ok([scheme |-> buf[1],
             signature |-> SubSeq(buf, 2, 1 + SIGNATURE_LENGTH),
             public_key |-> SubSeq(buf, 2 + SIGNATURE_LENGTH, Len(buf))])

\* -------------------------------------------------------- AddressSeed serde

\* (mutant) an AddressSeed written as its 32 bytes by a compact serializer
address_seed_serialize_raw(self, human_readable) ==
    IF human_readable THEN to_string(self) ELSE padded(self)

\* impl Serialize for AddressSeed: DisplayFromStr::serialize_as, the string
\* of to_string for a human-readable serializer and for a compact one alike
address_seed_serialize(self, human_readable) == to_string(self)

\* impl Deserialize for AddressSeed: DisplayFromStr::deserialize_as, from_str
\* of the string read
address_seed_deserialize(s) == from_str(s)

\* --------------------------------------------------- ZkLoginAuthenticator

U64_BYTES == 8

NO_AUTH ==
    [inputs |-> [proof_points |-> [a |-> <<>>, b |-> <<>>, c |-> <<>>],
                 iss_base64_details |-> [value |-> <<>>, index_mod_4 |-> 0],
                 header_base64 |-> <<>>,
                 address_seed |-> <<>>],
     max_epoch |-> <<>>,
     signature |-> NO_SIGNATURE]

\* the outcome of decoding an authenticator
AuthDecoded(v) == [out |-> "Ok", val |-> v, err |-> "none"]

AuthFailed(e) == [out |-> "Err", val |-> NO_AUTH, err |-> e]

AuthPanicked(e) == [out |-> "Panic", val |-> NO_AUTH, err |-> e]

\* (mutant) the fields with the signature before max_epoch
bcs_authenticator_signature_first(self) ==
    bcs_vec_str(self.inputs.proof_points.a)
    \o bcs_vec_vec_str(self.inputs.proof_points.b)
    \o bcs_vec_str(self.inputs.proof_points.c)
    \o bcs_bytes(self.inputs.iss_base64_details.value)
    \o <<self.inputs.iss_base64_details.index_mod_4>>
    \o bcs_bytes(self.inputs.header_base64)
    \o bcs_bytes(address_seed_serialize(self.inputs.address_seed, FALSE))
    \o bcs_bytes(simple_signature_bytes(self.signature))
    \o self.max_epoch

\* bcs::serialize_into(&mut buf, &authenticator_ref): the fields in the order
\* of their declaration; max_epoch (a u64) is held as its eight bytes, least
\* significant first; address_seed is the string DisplayFromStr makes of it
bcs_authenticator(self) ==
    bcs_vec_str(self.inputs.proof_points.a)
    \o bcs_vec_vec_str(self.inputs.proof_points.b)
    \o bcs_vec_str(self.inputs.proof_points.c)
    \o bcs_bytes(self.inputs.iss_base64_details.value)
    \o <<self.inputs.iss_base64_details.index_mod_4>>
    \o bcs_bytes(self.inputs.header_base64)
    \o bcs_bytes(address_seed_serialize(self.inputs.address_seed, FALSE))
    \o self.max_epoch
    \o bcs_bytes(simple_signature_bytes(self.signature))

\* (mutant) the compact branch without the flag byte
auth_compact_bytes_no_flag(self) == bcs_authenticator(self)

\* impl Serialize for ZkLoginAuthenticator, the compact branch: the ZkLogin
\* flag, then the BCS of the fields
auth_compact_bytes(self) == <<FLAG_ZKLOGIN>> \o bcs_authenticator(self)

\* one field of the record: the error of the reader r, or the rest of the
\* record read after it
Field(r, F(_)) == With(r, LAMBDA x : IF ~x.ok THEN AuthFailed(x.err) ELSE F(x))

\* bcs::from_bytes::<Authenticator>: the fields one after the other, and an
\* error when bytes remain
bcs_from_bytes(bytes) ==
    Field(parse_vec_str(bytes, 1), LAMBDA a :
    Field(parse_vec_vec_str(bytes, a.pos), LAMBDA b :
    Field(parse_vec_str(bytes, b.pos), LAMBDA c :
    Field(parse_str(bytes, c.pos), LAMBDA value :
    Field(parse_fixed(bytes, value.pos, 1), LAMBDA index :
    Field(parse_str(bytes, index.pos), LAMBDA header :
    Field(parse_str(bytes, header.pos), LAMBDA seed_str :
    Field(address_seed_deserialize(seed_str.val), LAMBDA address_seed :
    Field(parse_fixed(bytes, seed_str.pos, U64_BYTES), LAMBDA epoch :
    Field(parse_bytes(bytes, epoch.pos), LAMBDA sig_bytes :
    Field(simple_signature_from_bytes(sig_bytes.val), LAMBDA sig :
        IF sig_bytes.pos <= Len(bytes) THEN AuthFailed("RemainingInput")
        ELSE AuthDecoded(
            [inputs |-> [proof_points |-> [a |-> a.val, b |-> b.val, c |-> c.val],
                         iss_base64_details |-> [value |-> value.val,
                                                 index_mod_4 |-> index.val[1]],
                         header_base64 |-> header.val,
                         address_seed |-> address_seed.val],
             max_epoch |-> epoch.val,
             signature |-> sig.val]))))))))))))

\* from_serialized_bytes without the comparison of the flag with ZkLogin
from_serialized_bytes_any_flag(bytes) ==
    IF Len(bytes) = 0 THEN AuthPanicked("index out of bounds")
    ELSE LET flag == scheme_from_byte(bytes[1])
         IN  IF ~flag.ok THEN AuthFailed(flag.err)
             ELSE With(Tail(bytes), LAMBDA rest : bcs_from_bytes(rest))

\* ZkLoginAuthenticator::from_serialized_bytes: bytes[0] panics on an empty
\* buffer
from_serialized_bytes(bytes) ==
    IF Len(bytes) = 0 THEN AuthPanicked("index out of bounds")
    ELSE LET flag == scheme_from_byte(bytes[1])
         IN  IF ~flag.ok THEN AuthFailed(flag.err)
             ELSE IF flag.val # FLAG_ZKLOGIN THEN AuthFailed("invalid zklogin flag")
             ELSE With(Tail(bytes), LAMBDA rest : bcs_from_bytes(rest))

\* the name of a single-key scheme in the human-readable format
scheme_name(flag) ==
    IF flag = FLAG_ED25519 THEN "ed25519"
    ELSE IF flag = FLAG_SECP256K1 THEN "secp256k1"
    ELSE "secp256r1"

\* SimpleSignature, human-readable: the scheme by name, the signature, the
\* public key
simple_signature_readable(self) ==
    [scheme |-> scheme_name(self.scheme),
     signature |-> self.signature,
     public_key |-> self.public_key]

\* SimpleSignature from its human-readable record
simple_signature_from_readable(r) ==
    IF r.scheme \notin {scheme_name(f) : f \in {FLAG_ED25519, FLAG_SECP256K1, FLAG_SECP256R1}}
    THEN Err("unknown variant")
    ELSE LET flag == CHOOSE f \in {FLAG_ED25519, FLAG_SECP256K1, FLAG_SECP256R1} :
                         scheme_name(f) = r.scheme
         IN  IF Len(r.signature) # SIGNATURE_LENGTH
                \/ Len(r.public_key) # public_key_length(flag)
             THEN Err("invalid signature length")
             ELSE Ok([scheme |-> flag, signature |-> r.signature,
                      public_key |-> r.public_key])

NO_AUTH_RECORD ==
    [inputs |-> [proof_points |-> [a |-> <<>>, b |-> <<>>, c |-> <<>>],
                 iss_base64_details |-> [value |-> <<>>, index_mod_4 |-> 0],
                 header_base64 |-> <<>>,
                 address_seed |-> <<>>],
     max_epoch |-> <<>>,
     signature |-> [scheme |-> "none", signature |-> <<>>, public_key |-> <<>>]]

\* what a serializer was handed for an authenticator: the record of the
\* named fields (human-readable) or one byte buffer (compact)
AuthReadableWire(record) == [human |-> TRUE, record |-> record, bytes |-> <<>>]

AuthCompactWire(bytes) == [human |-> FALSE, record |-> NO_AUTH_RECORD, bytes |-> bytes]

\* AuthenticatorRef serialized by a human-readable serializer: the derived
\* Serialize, the fields by name, the seed through impl Serialize for
\* AddressSeed
auth_readable(self) ==
    [inputs |-> [proof_points |-> self.inputs.proof_points,
                 iss_base64_details |-> self.inputs.iss_base64_details,
                 header_base64 |-> self.inputs.header_base64,
                 address_seed |-> address_seed_serialize(self.inputs.address_seed, TRUE)],
     max_epoch |-> self.max_epoch,
     signature |-> simple_signature_readable(self.signature)]

\* impl Serialize for ZkLoginAuthenticator
auth_serialize(self, human_readable) ==
    IF human_readable THEN AuthReadableWire(auth_readable(self))
    ELSE AuthCompactWire(auth_compact_bytes(self))

\* Authenticator::deserialize of a human-readable record: index_mod_4 is a
\* u8, the seed goes through impl Deserialize for AddressSeed
auth_readable_deserialize(record) ==
    IF record.inputs.iss_base64_details.index_mod_4 \notin Byte
    THEN AuthFailed("invalid value: expected u8")
    ELSE Field(address_seed_deserialize(record.inputs.address_seed), LAMBDA address_seed :
         Field(simple_signature_from_readable(record.signature), LAMBDA sig :
             AuthDecoded(
                 [inputs |-> [proof_points |-> record.inputs.proof_points,
                              iss_base64_details |-> record.inputs.iss_base64_details,
                              header_base64 |-> record.inputs.header_base64,
                              address_seed |-> address_seed.val],
                  max_epoch |-> record.max_epoch,
                  signature |-> sig.val])))

\* impl Deserialize for ZkLoginAuthenticator
auth_deserialize(w) ==
    IF w.human THEN auth_readable_deserialize(w.record)
    ELSE from_serialized_bytes(w.bytes)

\* ---------------------------------------------------------------- inputs

\* a byte buffer of the given length: its first byte, then a run that starts
\* at fill and goes up by step
PatternBytes(len, first, fill, step) ==
    [i \in 1..len |-> IF i = 1 THEN first ELSE (fill + step * (i - 2)) % U8_RANGE]

\* the buffers the seeds are made from: every length 1..32, with zero, one
\* and 0xFF as first and as following bytes (all-zero and all-0xFF included)
SeedRuns == {<<0, 0>>, <<1, 0>>, <<255, 0>>, <<1, 37>>}

SeedBuffers ==
    { PatternBytes(len, first, run[1], run[2]) :
        len \in 1..N_BYTES, first \in {0, 1, 255}, run \in SeedRuns }

\* AddressSeed(b left-padded with zero bytes to 32 bytes): the value of b
\* read as a big-endian unsigned integer
SeedOfBytes(b) == Repeat(0, N_BYTES - Len(b)) \o b

Seeds == { SeedOfBytes(b) : b \in SeedBuffers }

ZERO_SEED == Repeat(0, N_BYTES)

\* a string of decimal digits of the given length
PatternDigits(len, first, fill, step) ==
    [i \in 1..len |-> CH_ZERO + (IF i = 1 THEN first ELSE (fill + step * (i - 2)) % RADIX)]

\* 2^256 - 1 and 2^256 in base 10
MAX_U256_DEC ==
    [i \in 1..78 |-> CH_ZERO +
      <<1, 1, 5, 7, 9, 2, 0, 8, 9, 2, 3, 7, 3, 1, 6, 1, 9, 5, 4, 2, 3, 5, 7, 0, 9, 8,
        5, 0, 0, 8, 6, 8, 7, 9, 0, 7, 8, 5, 3, 2, 6, 9, 9, 8, 4, 6, 6, 5, 6, 4, 0, 5,
        6, 4, 0, 3, 9, 4, 5, 7, 5, 8, 4, 0, 0, 7, 9, 1, 3, 1, 2, 9, 6, 3, 9, 9, 3, 5>>[i]]

TWO_POW_256_DEC == [MAX_U256_DEC EXCEPT ![78] = CH_ZERO + 6]

\* digit strings with no leading zero, of every length up to MaxTextLen (so
\* both below and above 2^256), "0", and the two numbers around 2^256
PlainNumbers ==
    { PatternDigits(len, first, fill, 0) :
        len \in 1..MaxTextLen, first \in {1, 9}, fill \in {0, 9} }
    \cup { PatternDigits(len, 1, 1, 3) : len \in 76..MaxTextLen }
    \cup { <<CH_ZERO>>, MAX_U256_DEC, TWO_POW_256_DEC,
           [MAX_U256_DEC EXCEPT ![1] = CH_ZERO + 2],
           [MAX_U256_DEC EXCEPT ![40] = CH_ZERO + 3] }

\* numbers written with leading zeros
ZeroPaddedNumbers ==
    { Repeat(CH_ZERO, k) \o n :
        k \in 1..MaxZeroPad,
        n \in { PatternDigits(len, 9, 9, 0) : len \in {1, 39, 77, 78, 79} }
              \cup {<<CH_ZERO>>, MAX_U256_DEC, TWO_POW_256_DEC} }

\* characters that are no decimal digit: '+', '-', ' ', 'x', '/', ':', 'a'
OtherChars == {43, 45, 32, 120, 47, 58, 97}

\* d with the character c put in at position p
InsertAt(d, p, c) ==
    [i \in 1..(Len(d) + 1) |-> IF i < p THEN d[i] ELSE IF i = p THEN c ELSE d[i - 1]]

\* strings with one character that is no digit, at the start, inside or at
\* the end of a short or a long digit string, and the empty string
MalformedTexts ==
    UNION { { InsertAt(d, p, c) : p \in {1, 2, Len(d), Len(d) + 1} \cap 1..(Len(d) + 1),
                                  c \in OtherChars } :
            d \in { PatternDigits(len, 1, 2, 1) : len \in {0, 1, 3, 77, MaxTextLen - 1} } }
    \cup { <<>> }

Texts == PlainNumbers \cup ZeroPaddedNumbers \cup MalformedTexts

\* "https://accounts.example.com"
EXAMPLE_ISS ==
    <<104, 116, 116, 112, 115, 58, 47, 47, 97, 99, 99, 111, 117, 110, 116, 115, 46,
      101, 120, 97, 109, 112, 108, 101, 46, 99, 111, 109>>

\* an issuer of the given number of bytes: lower-case letters, after a
\* two-byte character (0xC3 0xA9) when wide
PatternIss(len, wide) ==
    [i \in 1..len |-> IF wide /\ i = 1 THEN 195
                      ELSE IF wide /\ i = 2 THEN 169
                      ELSE 97 + (i % 26)]

\* issuers around the lengths where the length byte matters
IssStrings ==
    { PatternIss(len, FALSE) : len \in {0, 1, 2, 127, 128} \cup (MaxIssLen - 3)..MaxIssLen }
    \cup { PatternIss(len, TRUE) : len \in {2, 3, MaxIssLen - 1} }
    \cup { EXAMPLE_ISS }

IdentSeeds ==
    { ZERO_SEED, Repeat(255, N_BYTES), SeedOfBytes(PatternBytes(30, 1, 1, 37)) }

Idents == { [iss |-> i, address_seed |-> s] : i \in IssStrings, s \in IdentSeeds }

\* byte buffers handed to the compact decoder: every length from empty to
\* MaxWireLen, a first (length) byte, and a run of one byte (a letter, a
\* continuation byte, a byte no UTF-8 text holds)
WireBuffers ==
    { [i \in 1..len |-> IF i = 1 THEN first ELSE fill] :
        len \in 0..MaxWireLen, first \in {0, 1, 2, 3, 40, 255}, fill \in {97, 169, 255} }

\* records handed to the human-readable decoder
WireRecords ==
    { ReadableWire(i, s) :
        i \in {<<>>, EXAMPLE_ISS, PatternIss(MaxIssLen, FALSE)},
        s \in {<<>>, <<CH_ZERO>>, <<CH_ZERO, CH_ZERO, CH_ZERO + 7>>, <<CH_PLUS, CH_ZERO + 1>>,
               <<CH_ZERO + 1, CH_ZERO + 2, 120, CH_ZERO + 3>>, MAX_U256_DEC, TWO_POW_256_DEC} }

Wires == { CompactWire(b) : b \in WireBuffers } \cup WireRecords

\* the strings "0" .. "9" in sequences: a G1 point, a G2 point
G1_POINT == <<<<CH_ZERO + 1>>, <<CH_ZERO + 2, CH_ZERO + 3>>, <<CH_ZERO + 1>>>>

G2_POINT ==
    <<<<<<CH_ZERO + 4>>, <<CH_ZERO + 5>>>>,
      <<<<CH_ZERO + 6>>, <<CH_ZERO + 7>>>>,
      <<<<CH_ZERO + 1>>, <<CH_ZERO>>>>>>

\* an Ed25519 SimpleSignature of patterned bytes
ED25519_SIGNATURE ==
    [scheme |-> FLAG_ED25519,
     signature |-> PatternBytes(SIGNATURE_LENGTH, 7, 1, 3),
     public_key |-> PatternBytes(public_key_length(FLAG_ED25519), 9, 2, 5)]

\* authenticators: two seeds, two claims
Auths ==
    { [inputs |-> [proof_points |-> [a |-> G1_POINT, b |-> G2_POINT, c |-> G1_POINT],
                   iss_base64_details |-> [value |-> PatternIss(5, FALSE), index_mod_4 |-> m],
                   header_base64 |-> PatternIss(3, FALSE),
                   address_seed |-> s],
       max_epoch |-> [i \in 1..U64_BYTES |-> IF i = 1 THEN 10 ELSE 0],
       signature |-> ED25519_SIGNATURE] :
      s \in {ZERO_SEED, SeedOfBytes(PatternBytes(30, 1, 1, 37))}, m \in {1, 3} }

\* v with another index_mod_4 in its claim
WithIndex(v, m) == [v EXCEPT !.inputs.iss_base64_details.index_mod_4 = m]

\* bytes handed to from_serialized_bytes: the compact encoding of an
\* authenticator, whole or cut anywhere (down to the empty buffer), followed
\* by more bytes, or with another first byte
AuthBuffers ==
    UNION { LET e == auth_compact_bytes(v)
            IN  { SubSeq(e, 1, n) : n \in 0..Len(e) }
                \cup { e \o Repeat(0, k) : k \in 1..MaxExtra }
                \cup { [e EXCEPT ![1] = t] : t \in 0..(FLAG_ZKLOGIN + 1) \cup {U8_RANGE - 1} } :
            v \in Auths }
    \cup { auth_compact_bytes(WithIndex(v, m)) : v \in Auths, m \in {0, 4, U8_RANGE - 1} }

\* records handed to the human-readable decoder of an authenticator: what
\* the serializer writes, and that with another index_mod_4, another seed
\* string or another scheme name
AuthRecords ==
    UNION { LET r == auth_readable(v)
            IN  {r}
                \cup { [r EXCEPT !.inputs.iss_base64_details.index_mod_4 = m] :
                         m \in {0, 4, U8_RANGE - 1, U8_RANGE} }
                \cup { [r EXCEPT !.inputs.address_seed = t] :
                         t \in {<<>>, <<CH_ZERO, CH_ZERO + 7>>, <<CH_PLUS, CH_ZERO + 1>>,
                                MAX_U256_DEC, TWO_POW_256_DEC} }
                \cup { [r EXCEPT !.signature.scheme = n] : n \in {"secp256k1", "multisig"} } :
            v \in Auths }

AuthWires ==
    { AuthCompactWire(b) : b \in AuthBuffers } \cup { AuthReadableWire(r) : r \in AuthRecords }

\* ------------------------------------------------------------------ state

VARIABLES
    given,      \* which input Init handed out: "seed", "text", "ident", "wire",
                \* "auth_bytes", "auth" or "auth_wire"
    seed,       \* the AddressSeed under test (its 32 bytes), when given = "seed"
    text,       \* the string under test, when given = "text"
    ident,      \* the ZkLoginPublicIdentifier under test, when given = "ident"
    auth,       \* the ZkLoginAuthenticator under test, when given = "auth"
    input,      \* the serialized input under test, when given = "wire" (of an
                \* identifier), "auth_bytes" or "auth_wire" (of an authenticator)
    shown,      \* the last to_string call: its receiver and the string it returned
    parsed,     \* the last from_str call: its argument and the Result it returned
    unpad,      \* the last unpadded() call: its receiver and the slice it returned
    pad,        \* the last padded() call: its receiver and the slice it returned
    wire,       \* the last serialize call: the identifier and what was written
    decoded,    \* the last deserialize call: what was read and the outcome
    authed,     \* the last from_serialized_bytes call: the bytes and the outcome
    auth_wire,  \* the last serialize call of an authenticator, and what was written
    auth_decoded \* the last deserialize call of an authenticator, and the outcome

vars == <<given, seed, text, ident, auth, input, shown, parsed, unpad, pad, wire, decoded,
          authed, auth_wire, auth_decoded>>

NoCall == [set |-> FALSE, arg |-> <<>>, res |-> <<>>]

NoParse == [set |-> FALSE, arg |-> <<>>, res |-> Err("unset")]

NoWire == [set |-> FALSE, arg |-> NO_IDENT, res |-> CompactWire(<<>>)]

NoDecode == [set |-> FALSE, arg |-> CompactWire(<<>>), res |-> Failed("unset")]

NoAuthDecode == [set |-> FALSE, arg |-> <<>>, res |-> AuthFailed("unset")]

NoAuthWire == [set |-> FALSE, arg |-> NO_AUTH, res |-> AuthCompactWire(<<>>)]

NoAuthWireDecode == [set |-> FALSE, arg |-> AuthCompactWire(<<>>), res |-> AuthFailed("unset")]

Call(a, r) == [set |-> TRUE, arg |-> a, res |-> r]

InitSeed ==
    /\ given = "seed"
    /\ seed \in Seeds
    /\ text = <<>>
    /\ ident = NO_IDENT
    /\ auth = NO_AUTH
    /\ input = CompactWire(<<>>)

InitText ==
    /\ given = "text"
    /\ seed = <<>>
    /\ text \in Texts
    /\ ident = NO_IDENT
    /\ auth = NO_AUTH
    /\ input = CompactWire(<<>>)

InitIdent ==
    /\ given = "ident"
    /\ seed = <<>>
    /\ text = <<>>
    /\ ident \in Idents
    /\ auth = NO_AUTH
    /\ input = CompactWire(<<>>)

InitWire ==
    /\ given = "wire"
    /\ seed = <<>>
    /\ text = <<>>
    /\ ident = NO_IDENT
    /\ auth = NO_AUTH
    /\ input \in Wires

InitAuthBytes ==
    /\ given = "auth_bytes"
    /\ seed = <<>>
    /\ text = <<>>
    /\ ident = NO_IDENT
    /\ auth = NO_AUTH
    /\ input \in { CompactWire(b) : b \in AuthBuffers }

InitAuth ==
    /\ given = "auth"
    /\ seed = <<>>
    /\ text = <<>>
    /\ ident = NO_IDENT
    /\ auth \in Auths
    /\ input = CompactWire(<<>>)

InitAuthWire ==
    /\ given = "auth_wire"
    /\ seed = <<>>
    /\ text = <<>>
    /\ ident = NO_IDENT
    /\ auth = NO_AUTH
    /\ input \in AuthWires

Init ==
    /\ InitSeed \/ InitText \/ InitIdent \/ InitWire \/ InitAuthBytes \/ InitAuth
       \/ InitAuthWire
    /\ shown = NoCall
    /\ parsed = NoParse
    /\ unpad = NoCall
    /\ pad = NoCall
    /\ wire = NoWire
    /\ decoded = NoDecode
    /\ authed = NoAuthDecode
    /\ auth_wire = NoAuthWire
    /\ auth_decoded = NoAuthWireDecode

\* the AddressSeed values the caller holds: the one it was given and the one
\* the last successful from_str returned
HeldSeeds ==
    (IF given = "seed" THEN {seed} ELSE {})
    \cup (IF parsed.set /\ parsed.res.ok THEN {parsed.res.val} ELSE {})

\* the strings the caller holds: the one it was given and the one the last
\* to_string returned
HeldTexts ==
    (IF given = "text" THEN {text} ELSE {})
    \cup (IF shown.set THEN {shown.res} ELSE {})

\* the identifiers the caller holds: the one it was given and the one the
\* last successful deserialize returned
HeldIdents ==
    (IF given = "ident" THEN {ident} ELSE {})
    \cup (IF decoded.set /\ decoded.res.out = "Ok" THEN {decoded.res.val} ELSE {})

\* bytes without the last one
Truncated(bytes) == [i \in 1..(Len(bytes) - 1) |-> bytes[i]]

\* what the caller reads from: the input it was given, what the last
\* serialize wrote, and that compact encoding cut by one byte or followed by
\* up to MaxExtra more bytes
HeldWires ==
    (IF given = "wire" THEN {input} ELSE {})
    \cup (IF wire.set THEN {wire.res} ELSE {})
    \cup (IF wire.set /\ ~wire.res.human
          THEN {CompactWire(Truncated(wire.res.bytes))}
               \cup { CompactWire(wire.res.bytes \o Repeat(b, k)) :
                        b \in {0, 97}, k \in 1..MaxExtra }
          ELSE {})

\* The caller converts (to_string, from_str) and then takes slices of what it
\* holds; once it has taken a slice it converts no more.
Converting == ~unpad.set /\ ~pad.set

\* seed.to_string()
Display ==
    /\ Converting
    /\ \E x \in HeldSeeds :
        /\ shown' = Call(x, to_string(x))
        /\ UNCHANGED <<given, seed, text, ident, auth, input, parsed, unpad, pad, wire, decoded, authed,
                     auth_wire, auth_decoded>>

\* AddressSeed::from_str(s)
FromStr ==
    /\ Converting
    /\ \E s \in HeldTexts :
        /\ parsed' = Call(s, from_str(s))
        /\ UNCHANGED <<given, seed, text, ident, auth, input, shown, unpad, pad, wire, decoded, authed,
                     auth_wire, auth_decoded>>

\* seed.unpadded()
Unpadded ==
    /\ ~shown.set
    /\ \E x \in HeldSeeds :
        /\ unpad' = Call(x, unpadded(x))
        /\ UNCHANGED <<given, seed, text, ident, auth, input, shown, parsed, pad, wire, decoded, authed,
                     auth_wire, auth_decoded>>

\* seed.padded()
Padded ==
    /\ ~shown.set
    /\ \E x \in HeldSeeds :
        /\ pad' = Call(x, padded(x))
        /\ UNCHANGED <<given, seed, text, ident, auth, input, shown, parsed, unpad, wire, decoded, authed,
                     auth_wire, auth_decoded>>

\* identifier.serialize(serializer), with a human-readable serializer or a
\* compact one
Serialize ==
    \E v \in HeldIdents, human_readable \in BOOLEAN :
        /\ wire' = Call(v, ident_serialize(v, human_readable))
        /\ UNCHANGED <<given, seed, text, ident, auth, input, shown, parsed, unpad, pad, decoded, authed,
                     auth_wire, auth_decoded>>

\* ZkLoginPublicIdentifier::deserialize(deserializer)
Deserialize ==
    \E w \in HeldWires :
        /\ decoded' = Call(w, ident_deserialize(w))
        /\ UNCHANGED <<given, seed, text, ident, auth, input, shown, parsed, unpad, pad, wire, authed,
                     auth_wire, auth_decoded>>

\* ZkLoginAuthenticator::from_serialized_bytes(bytes)
FromSerializedBytes ==
    /\ given = "auth_bytes"
    /\ authed' = Call(input.bytes, from_serialized_bytes(input.bytes))
    /\ UNCHANGED <<given, seed, text, ident, auth, input, shown, parsed, unpad, pad, wire, decoded,
                     auth_wire, auth_decoded>>

\* the authenticators the caller holds: the one it was given and the one the
\* last successful deserialize returned
HeldAuths ==
    (IF given = "auth" THEN {auth} ELSE {})
    \cup (IF auth_decoded.set /\ auth_decoded.res.out = "Ok" THEN {auth_decoded.res.val} ELSE {})

\* what the caller reads an authenticator from: the input it was given and
\* what the last serialize wrote
HeldAuthWires ==
    (IF given = "auth_wire" THEN {input} ELSE {})
    \cup (IF auth_wire.set THEN {auth_wire.res} ELSE {})

\* authenticator.serialize(serializer), with a human-readable serializer or
\* a compact one
AuthSerialize ==
    \E v \in HeldAuths, human_readable \in BOOLEAN :
        /\ auth_wire' = Call(v, auth_serialize(v, human_readable))
        /\ UNCHANGED <<given, seed, text, ident, auth, input, shown, parsed, unpad, pad, wire,
                       decoded, authed, auth_decoded>>

\* ZkLoginAuthenticator::deserialize(deserializer)
AuthDeserialize ==
    \E w \in HeldAuthWires :
        /\ auth_decoded' = Call(w, auth_deserialize(w))
        /\ UNCHANGED <<given, seed, text, ident, auth, input, shown, parsed, unpad, pad, wire,
                       decoded, authed, auth_wire>>

Next == Display \/ FromStr \/ Unpadded \/ Padded \/ Serialize \/ Deserialize
        \/ FromSerializedBytes \/ AuthSerialize \/ AuthDeserialize

Spec == Init /\ [][Next]_vars

\* ----------------------------------------------------------------- claims

IsDigit(c) == c >= CH_ZERO /\ c <= CH_NINE

AllDigits(s) == \A i \in 1..Len(s) : IsDigit(s[i])

\* s is the base-10 string of a number with no leading zero digits
IsCanonicalDec(s) == Len(s) >= 1 /\ AllDigits(s) /\ (Len(s) = 1 \/ s[1] # CH_ZERO)

\* a <= b for two digit strings of one length
LexLeq(a, b) ==
    \A i \in 1..Len(a) : (\A j \in 1..(i - 1) : a[j] = b[j]) => a[i] <= b[i]

\* s without the '0' characters in front of it
RECURSIVE StripZeroChars(_)
StripZeroChars(s) ==
    IF Len(s) # 0 /\ s[1] = CH_ZERO THEN StripZeroChars(Tail(s)) ELSE s

\* the digit string s denotes a number of at most 2^256 - 1
DenotesU256(s) ==
    LET c == StripZeroChars(s)
    IN  Len(c) < Len(MAX_U256_DEC) \/ (Len(c) = Len(MAX_U256_DEC) /\ LexLeq(c, MAX_U256_DEC))

\* C1: a seed made from a byte buffer of length 1..32, rendered with
\* to_string and parsed back with from_str, is the seed again.
C1_DisplayThenParse ==
    (given = "seed" /\ shown.set /\ shown.arg = seed /\ parsed.set /\ parsed.arg = shown.res)
        => parsed.res = Ok(seed)

\* a seed with zero bytes in front and a non-zero value has made the round
C1_Witness ==
    /\ given = "seed" /\ seed[1] = 0 /\ seed[2] = 0 /\ seed[N_BYTES] # 0
    /\ shown.set /\ shown.arg = seed
    /\ parsed.set /\ parsed.arg = shown.res /\ parsed.res.ok

\* C2: the canonical base-10 string of a number below 2^256 parses, and
\* to_string of the parsed seed is that very string.
C2_ParseThenDisplay ==
    (given = "text" /\ IsCanonicalDec(text) /\ DenotesU256(text)
       /\ parsed.set /\ parsed.arg = text)
        => /\ parsed.res.ok
           /\ (shown.set /\ shown.arg = parsed.res.val) => shown.res = text

\* the string of 2^256 - 1 has been parsed and rendered again
C2_Witness ==
    /\ given = "text" /\ text = MAX_U256_DEC
    /\ parsed.set /\ parsed.arg = text /\ parsed.res.ok
    /\ parsed.res.val = Repeat(255, N_BYTES)
    /\ shown.set /\ shown.arg = parsed.res.val

\* C3: unpadded() returns between 1 and 32 bytes, and exactly the one byte
\* 0x00 for the all-zero seed.
C3_UnpaddedNonEmpty ==
    unpad.set =>
        /\ Len(unpad.res) >= 1 /\ Len(unpad.res) <= N_BYTES
        /\ (unpad.arg = ZERO_SEED => unpad.res = <<0>>)

\* unpadded() of the all-zero seed has returned
C3_Witness == unpad.set /\ unpad.arg = ZERO_SEED

\* C4: padded() is the whole 32-byte buffer, unpadded() is a suffix of it,
\* every byte before the suffix is zero, and unless the value is zero the
\* suffix starts with a non-zero byte; 0x00 then thirty-one 0x01 gives the
\* thirty-one 0x01.
C4_UnpaddedIsMinimalSuffix ==
    (unpad.set /\ pad.set /\ unpad.arg = pad.arg) =>
        LET k == N_BYTES - Len(unpad.res)
        IN  /\ pad.res = pad.arg
            /\ Len(pad.res) = N_BYTES
            /\ k >= 0
            /\ unpad.res = [i \in 1..(N_BYTES - k) |-> pad.res[k + i]]
            /\ \A i \in 1..k : pad.res[i] = 0
            /\ (pad.arg # ZERO_SEED => unpad.res[1] # 0)
            /\ (pad.arg = <<0>> \o Repeat(1, N_BYTES - 1) => unpad.res = Repeat(1, N_BYTES - 1))

\* both slices of the seed 0x00 then thirty-one 0x01 have been taken
C4_Witness ==
    /\ unpad.set /\ pad.set /\ unpad.arg = pad.arg
    /\ pad.arg = <<0>> \o Repeat(1, N_BYTES - 1)

\* C5: a digit string that denotes a number of 2^256 or more is refused by
\* from_str (from_str has no other outcome than Ok and Err).
C5_TooLargeIsRefused ==
    (parsed.set /\ Len(parsed.arg) >= 1 /\ AllDigits(parsed.arg) /\ ~DenotesU256(parsed.arg))
        => ~parsed.res.ok

\* the string of 2^256 itself has been refused
C5_Witness == parsed.set /\ parsed.arg = TWO_POW_256_DEC /\ ~parsed.res.ok

\* C6: a string that is empty or holds a character that is no digit is
\* refused by from_str.
C6_NonDigitsAreRefused ==
    (parsed.set /\ (Len(parsed.arg) = 0 \/ ~AllDigits(parsed.arg))) => ~parsed.res.ok

\* C7: the compact encoding of an identifier is one byte holding the byte
\* length of iss, then the bytes of iss, then the 32 bytes of the padded
\* seed: 1 + len(iss) + 32 bytes in all.
C7_CompactLayout ==
    (wire.set /\ ~wire.res.human) =>
        LET iss == wire.arg.iss
            buf == wire.res.bytes
        IN  /\ Len(buf) = 1 + Len(iss) + N_BYTES
            /\ buf[1] \in Byte
            /\ buf[1] = Len(iss)
            /\ buf = <<Len(iss)>> \o iss \o padded(wire.arg.address_seed)

\* C8: decoding what serialize wrote for an identifier, in the compact and in
\* the human-readable format alike, gives that identifier (so the two
\* decodings are equal to each other).
C8_DecodeOfEncode ==
    (wire.set /\ decoded.set /\ decoded.arg = wire.res)
        => decoded.res = Decoded(wire.arg)

\* C9: no decoding panics: the decoding of an identifier and
\* from_serialized_bytes end in Ok or in Err, also for an empty or a short
\* buffer.
C9_DecodeNeverPanics ==
    /\ decoded.set => decoded.res.out \in {"Ok", "Err"}
    /\ authed.set => authed.res.out \in {"Ok", "Err"}

\* C10: the compact decoding accepts a buffer only if its length is exactly
\* 1 + (its first byte) + 32; an encoding with its last byte removed is
\* refused with an error, and so is an encoding followed by more bytes.
C10_LengthExact ==
    (decoded.set /\ ~decoded.arg.human) =>
        LET buf == decoded.arg.bytes
        IN  /\ decoded.res.out = "Ok" => Len(buf) = 1 + buf[1] + N_BYTES
            /\ (wire.set /\ ~wire.res.human /\ buf = Truncated(wire.res.bytes))
                   => decoded.res.out = "Err"
            /\ (wire.set /\ ~wire.res.human /\ Len(buf) > Len(wire.res.bytes)
                  /\ SubSeq(buf, 1, Len(wire.res.bytes)) = wire.res.bytes)
                   => decoded.res.out = "Err"

\* the encoding of the example identifier with an extra byte has been refused
C10_Witness ==
    /\ wire.set /\ ~wire.res.human /\ wire.arg.iss = EXAMPLE_ISS
    /\ decoded.set /\ ~decoded.arg.human
    /\ decoded.arg.bytes = wire.res.bytes \o <<0>>
    /\ decoded.res.out = "Err"

\* the errors from_serialized_bytes returns before it reads the body
FlagErrors == {"invalid signature scheme", "invalid zklogin flag"}

\* C11: from_serialized_bytes of a buffer whose first byte is not the ZkLogin
\* flag (the flag of another scheme, or no flag at all) returns an error,
\* whatever the bytes after it are, and the error is that of the flag: the
\* body is not decoded.
C11_OtherFlagIsRefused ==
    (authed.set /\ Len(authed.arg) >= 1 /\ authed.arg[1] # FLAG_ZKLOGIN)
        => /\ authed.res.out = "Err"
           /\ authed.res.err \in FlagErrors
           /\ authed.res.val = NO_AUTH

\* the encoding of an authenticator with the Multisig flag in place of the
\* ZkLogin flag has been refused
C11_Witness ==
    /\ authed.set /\ Len(authed.arg) >= 1 /\ authed.arg[1] = FLAG_MULTISIG
    /\ \E v \in Auths : Tail(authed.arg) = bcs_authenticator(v)
    /\ authed.res.out = "Err"

\* the last n bytes of b
LastBytes(b, n) == SubSeq(b, Len(b) - n + 1, Len(b))

\* the bytes of b from position i to the n-th byte from its end
Between(b, i, n) == SubSeq(b, i, Len(b) - n)

\* the compact encoding of the fields of inputs that come before address_seed
BeforeSeed(v) ==
    bcs_vec_str(v.inputs.proof_points.a)
    \o bcs_vec_vec_str(v.inputs.proof_points.b)
    \o bcs_vec_str(v.inputs.proof_points.c)
    \o bcs_bytes(v.inputs.iss_base64_details.value)
    \o <<v.inputs.iss_base64_details.index_mod_4>>
    \o bcs_bytes(v.inputs.header_base64)

\* the compact encoding of the signature field
SignatureField(v) == bcs_bytes(simple_signature_bytes(v.signature))

\* C12: the compact encoding of an authenticator is the ZkLogin flag, one
\* byte, and then the body: inputs first (it starts with the proof points),
\* then the eight bytes of max_epoch, then the signature, and nothing else;
\* the human-readable encoding is the record of the fields inputs, max_epoch
\* and signature, with no flag and no bytes.
C12_AuthLayout ==
    auth_wire.set =>
        LET v == auth_wire.arg
            w == auth_wire.res
        IN  IF w.human
            THEN /\ DOMAIN w.record = {"inputs", "max_epoch", "signature"}
                 /\ w.bytes = <<>>
                 /\ w.record.max_epoch = v.max_epoch
                 /\ w.record.inputs.proof_points = v.inputs.proof_points
                 /\ w.record.inputs.iss_base64_details = v.inputs.iss_base64_details
                 /\ w.record.inputs.header_base64 = v.inputs.header_base64
                 /\ w.record.signature.signature = v.signature.signature
                 /\ w.record.signature.public_key = v.signature.public_key
            ELSE LET body == Tail(w.bytes)
                     n == Len(SignatureField(v))
                 IN  /\ Len(w.bytes) >= 1 /\ w.bytes[1] = FLAG_ZKLOGIN
                     /\ Len(w.bytes) = 1 + Len(bcs_authenticator(v))
                     /\ SubSeq(body, 1, Len(BeforeSeed(v))) = BeforeSeed(v)
                     /\ LastBytes(body, n) = SignatureField(v)
                     /\ Between(body, Len(body) - n - U64_BYTES + 1, n) = v.max_epoch

\* an authenticator has been written in the compact format
C12_Witness ==
    /\ auth_wire.set /\ ~auth_wire.res.human /\ auth_wire.arg \in Auths
    /\ auth_wire.arg.inputs.address_seed # ZERO_SEED
    /\ Len(auth_wire.res.bytes) > 1

\* C13: decoding what serialize wrote for an authenticator, in the compact
\* and in the human-readable format alike, gives that authenticator: inputs,
\* max_epoch and signature (so the two decodings are equal to each other).
C13_AuthDecodeOfEncode ==
    (auth_wire.set /\ auth_decoded.set /\ auth_decoded.arg = auth_wire.res)
        => auth_decoded.res = AuthDecoded(auth_wire.arg)

\* an authenticator with a non-zero seed has made the round trip through the
\* compact format
C13_Witness ==
    /\ auth_wire.set /\ ~auth_wire.res.human /\ auth_wire.arg \in Auths
    /\ auth_wire.arg.inputs.address_seed # ZERO_SEED
    /\ auth_decoded.set /\ auth_decoded.arg = auth_wire.res
    /\ auth_decoded.res.out = "Ok"

\* The value of a byte string read as a big-endian number, in base 10, by
\* Horner's rule on groups of STEP_DIGITS decimal digits (least significant
\* group first): a reckoning that shares nothing with to_str_radix and
\* from_str_radix.
DEC_GROUP == pow(RADIX, STEP_DIGITS)

DEC_WIDTH == Len(MAX_U256_DEC)

DEC_GROUPS == DEC_WIDTH \div STEP_DIGITS

\* g * 256 + carry
RECURSIVE GroupsTimes256Plus(_, _, _)
GroupsTimes256Plus(g, i, carry) ==
    IF i > Len(g) THEN g
    ELSE With(g[i] * U8_RANGE + carry,
              LAMBDA cur : GroupsTimes256Plus([g EXCEPT ![i] = cur % DEC_GROUP], i + 1,
                                              cur \div DEC_GROUP))

RECURSIVE BigEndianGroups(_, _, _)
BigEndianGroups(bytes, i, g) ==
    IF i > Len(bytes) THEN g
    ELSE With(GroupsTimes256Plus(g, 1, bytes[i]),
              LAMBDA h : BigEndianGroups(bytes, i + 1, h))

\* the big-endian value of at most 32 bytes, as DEC_WIDTH decimal digits
BigEndianDecimal(bytes) ==
    With(BigEndianGroups(bytes, 1, Repeat(0, DEC_GROUPS)),
         LAMBDA g : [k \in 1..DEC_WIDTH |->
                       CH_ZERO + ((g[((DEC_WIDTH - k) \div STEP_DIGITS) + 1]
                                     \div pow(RADIX, (DEC_WIDTH - k) % STEP_DIGITS)) % RADIX)])

\* the number the digit string s denotes (below 10^DEC_WIDTH), as DEC_WIDTH
\* decimal digits
PaddedDecimal(s) ==
    With(StripZeroChars(s), LAMBDA c : Repeat(CH_ZERO, DEC_WIDTH - Len(c)) \o c)

\* the compact encoding of a string of fewer than 128 bytes
ShortString(d) == <<Len(d)>> \o d

\* the bytes of the address_seed field in the compact encoding bytes of v
SeedField(v, bytes) ==
    Between(bytes, 2 + Len(BeforeSeed(v)), U64_BYTES + Len(SignatureField(v)))

C15_IndexMod4InRange ==
    /\ (auth_decoded.set /\ auth_decoded.res.out = "Ok")
           => auth_decoded.res.val.inputs.iss_base64_details.index_mod_4 \in 0..3
    /\ (authed.set /\ authed.res.out = "Ok")
           => authed.res.val.inputs.iss_base64_details.index_mod_4 \in 0..3

\* the digit string s without its leading zero digits ("0" for zero)
CanonicalDec(s) ==
    With(StripZeroChars(s), LAMBDA c : IF Len(c) = 0 THEN <<CH_ZERO>> ELSE c)

\* C16: from_str of a digit string that denotes n < 2^256 returns the seed
\* whose 32 bytes are n in big-endian order (most significant byte first):
\* the value of the parsed buffer, of padded() and of unpadded() is n; and
\* the string with leading zero digits parses to the seed of the string
\* without them.
C16_ParsedValueIsBigEndian ==
    (parsed.set /\ Len(parsed.arg) >= 1 /\ AllDigits(parsed.arg) /\ DenotesU256(parsed.arg))
        => /\ parsed.res.ok
           /\ Len(parsed.res.val) = N_BYTES
           /\ BigEndianDecimal(parsed.res.val) = PaddedDecimal(parsed.arg)
           /\ (pad.set /\ pad.arg = parsed.res.val)
                  => /\ Len(pad.res) = N_BYTES
                     /\ BigEndianDecimal(pad.res) = PaddedDecimal(parsed.arg)
           /\ (unpad.set /\ unpad.arg = parsed.res.val)
                  => BigEndianDecimal(unpad.res) = PaddedDecimal(parsed.arg)
           /\ parsed.arg[1] = CH_ZERO => parsed.res = from_str(CanonicalDec(parsed.arg))

\* a number written with leading zeros has been parsed to a buffer with zero
\* bytes in front and the value at its end, and both slices of it were taken
C16_Witness ==
    /\ given = "text" /\ Len(text) > 1 /\ text[1] = CH_ZERO
    /\ parsed.set /\ parsed.arg = text /\ parsed.res.ok
    /\ parsed.res.val[1] = 0 /\ parsed.res.val[N_BYTES] # 0
    /\ pad.set /\ pad.arg = parsed.res.val
    /\ unpad.set /\ unpad.arg = parsed.res.val

\* C17: a buffer the compact decoder accepts is the compact encoding of the
\* identifier it decodes to: serializing the decoded identifier gives the
\* buffer again (so no two buffers decode to one identifier).
C17_CompactDecodeIsCanonical ==
    (decoded.set /\ ~decoded.arg.human /\ decoded.res.out = "Ok"
       /\ wire.set /\ ~wire.res.human /\ wire.arg = decoded.res.val)
        => wire.res = decoded.arg

\* a buffer given to the caller has been decoded to an identifier with a
\* non-empty iss, and that identifier serialized
C17_Witness ==
    /\ given = "wire" /\ ~input.human
    /\ decoded.set /\ decoded.arg = input /\ decoded.res.out = "Ok"
    /\ Len(decoded.res.val.iss) > 0
    /\ wire.set /\ ~wire.res.human /\ wire.arg = decoded.res.val

====
